---- MODULE Spec2Model ----
(***************************************************************************)
(* calc_score of mechanical_refactor_score/repository_before/app/score.py  *)
(* as a state machine.  Python objects (None, bool, int, float, str and    *)
(* instances of the classes of the test suite) are records; Python ints    *)
(* are unbounded (sign and magnitude, the magnitude in limbs); Python      *)
(* floats are IEEE-754 binary64 values with round-to-nearest-even          *)
(* arithmetic, signed zeros, subnormals, infinities and NaN.               *)
(***************************************************************************)
EXTENDS Integers, Sequences, FiniteSets, TLC

(***************************************************************************)
(* Bind(x, F) is F(x) with x evaluated once, before F is applied (LET      *)
(* names and operator arguments are substituted, not evaluated, so a value *)
(* used several times is bound with Bind).                                 *)
(***************************************************************************)
Bind(x, F(_)) == CHOOSE r \in {F(y) : y \in {x}} : TRUE

Bind2(x1, x2, F(_, _)) ==
    CHOOSE r \in {F(y[1], y[2]) : y \in {<<x1, x2>>}} : TRUE

Bind3(x1, x2, x3, F(_, _, _)) ==
    CHOOSE r \in {F(y[1], y[2], y[3]) : y \in {<<x1, x2, x3>>}} : TRUE

Bind4(x1, x2, x3, x4, F(_, _, _, _)) ==
    CHOOSE r \in {F(y[1], y[2], y[3], y[4]) : y \in {<<x1, x2, x3, x4>>}} : TRUE

(***************************************************************************)
(* Unbounded naturals: little-endian sequences of limbs, no leading zero   *)
(* limb; <<>> is 0.  (CPython's int is a sequence of 30-bit digits; the    *)
(* limb width here is chosen so that limb products fit the checker's       *)
(* integers.)                                                              *)
(***************************************************************************)
LimbBits == 10 + 5

RECURSIVE Pow2(_)
Pow2(n) == IF n = 0 THEN 1 ELSE 2 * Pow2(n - 1)

LimbBase == Pow2(LimbBits)

Max(a, b) == IF a >= b THEN a ELSE b

Min(a, b) == IF a <= b THEN a ELSE b

\* a without its leading zero limbs
BNorm(a0) ==
    Bind(a0, LAMBDA a :
        IF \A i \in 1..Len(a) : a[i] = 0 THEN <<>>
        ELSE SubSeq(a, 1, CHOOSE i \in 1..Len(a) :
                             a[i] # 0 /\ \A j \in (i + 1)..Len(a) : a[j] = 0))

RECURSIVE BFromInt(_)
BFromInt(n) ==
    IF n = 0 THEN <<>> ELSE <<n % LimbBase>> \o BFromInt(n \div LimbBase)

RECURSIVE BToInt(_)
BToInt(a) ==
    IF a = <<>> THEN 0 ELSE a[1] + LimbBase * BToInt(Tail(a))

Limb(a, i) == IF i <= Len(a) THEN a[i] ELSE 0

\* Limbs lo..hi of a * k + b + c (carry c in, carry out), halving the range so
\* that long numbers do not nest deeply.
RECURSIVE MulAddRange(_, _, _, _, _, _)
MulAddRange(a, k, b, lo, hi, c) ==
    IF lo = hi
    THEN Bind(Limb(a, lo) * k + Limb(b, lo) + c, LAMBDA s :
             [d |-> <<s % LimbBase>>, c |-> s \div LimbBase])
    ELSE Bind((lo + hi) \div 2, LAMBDA mid :
         Bind(MulAddRange(a, k, b, lo, mid, c), LAMBDA L :
         Bind(MulAddRange(a, k, b, mid + 1, hi, L.c), LAMBDA H :
             [d |-> L.d \o H.d, c |-> H.c])))

\* a * k + b for 0 <= k < LimbBase
BMulAdd(a0, k0, b0) ==
    Bind3(a0, k0, b0, LAMBDA a, k, b :
        IF Len(a) = 0 /\ Len(b) = 0 THEN <<>>
        ELSE Bind(MulAddRange(a, k, b, 1, Max(Len(a), Len(b)), 0), LAMBDA r :
                 BNorm(r.d \o <<r.c>>)))

BAdd(a, b) == BMulAdd(a, 1, b)

BMulSmall(a, k) == BMulAdd(a, k, <<>>)

\* Limbs lo..hi of a - b - c (borrow c in, borrow out)
RECURSIVE SubRange(_, _, _, _, _)
SubRange(a, b, lo, hi, c) ==
    IF lo = hi
    THEN Bind(Limb(a, lo) - Limb(b, lo) - c, LAMBDA s :
             IF s < 0 THEN [d |-> <<s + LimbBase>>, c |-> 1]
                      ELSE [d |-> <<s>>, c |-> 0])
    ELSE Bind((lo + hi) \div 2, LAMBDA mid :
         Bind(SubRange(a, b, lo, mid, c), LAMBDA L :
         Bind(SubRange(a, b, mid + 1, hi, L.c), LAMBDA H :
             [d |-> L.d \o H.d, c |-> H.c])))

\* a - b for a >= b
BSub(a0, b0) ==
    Bind2(a0, b0, LAMBDA a, b :
        IF a = <<>> THEN <<>> ELSE BNorm(SubRange(a, b, 1, Len(a), 0).d))

\* -1, 0, 1 as a < b, a = b, a > b
BCmp(a0, b0) ==
    Bind2(a0, b0, LAMBDA a, b :
        IF Len(a) < Len(b) THEN -1
        ELSE IF Len(a) > Len(b) THEN 1
        ELSE IF a = b THEN 0
        ELSE Bind(CHOOSE i \in 1..Len(a) :
                      a[i] # b[i] /\ \A j \in (i + 1)..Len(a) : a[j] = b[j],
                  LAMBDA i : IF a[i] < b[i] THEN -1 ELSE 1))

\* a * b, b first limb first
RECURSIVE BMulFrom(_, _, _)
BMulFrom(a, b, j) ==
    IF j > Len(b) THEN <<>>
    ELSE Bind(BMulFrom(a, b, j + 1), LAMBDA r :
             BMulAdd(a, b[j], IF r = <<>> THEN <<>> ELSE <<0>> \o r))

BMul(a0, b0) ==
    Bind2(a0, b0, LAMBDA a, b :
        IF a = <<>> \/ b = <<>> THEN <<>>
        ELSE IF Len(a) >= Len(b) THEN BMulFrom(a, b, 1)
        ELSE BMulFrom(b, a, 1))

\* Limbs hi..lo (highest first) of the quotient of a by k, with the remainder
\* r carried down from the limbs above hi
RECURSIVE DivRange(_, _, _, _, _)
DivRange(a, k, lo, hi, r) ==
    IF lo = hi
    THEN Bind(r * LimbBase + a[lo], LAMBDA cur :
             [q |-> <<cur \div k>>, r |-> cur % k])
    ELSE Bind((lo + hi) \div 2, LAMBDA mid :
         Bind(DivRange(a, k, mid + 1, hi, r), LAMBDA H :
         Bind(DivRange(a, k, lo, mid, H.r), LAMBDA L :
             [q |-> H.q \o L.q, r |-> L.r])))

Reverse(q) == [i \in 1..Len(q) |-> q[Len(q) + 1 - i]]

\* quotient and remainder of a by k, 0 < k < LimbBase
BDivSmall(a0, k0) ==
    Bind2(a0, k0, LAMBDA a, k :
        IF a = <<>> THEN [q |-> <<>>, r |-> 0]
        ELSE Bind(DivRange(a, k, 1, Len(a), 0), LAMBDA d :
                 [q |-> BNorm(Reverse(d.q)), r |-> d.r]))

Zeros(n) == [i \in 1..n |-> 0]

\* a * 2^n
BShl(a0, n0) ==
    Bind2(a0, n0, LAMBDA a, n :
        IF a = <<>> THEN <<>>
        ELSE Zeros(n \div LimbBits) \o BMulSmall(a, Pow2(n % LimbBits)))

\* floor(a / 2^n)
BShr(a0, n0) ==
    Bind2(a0, n0, LAMBDA a, n :
        IF n \div LimbBits >= Len(a) THEN <<>>
        ELSE BDivSmall(SubSeq(a, n \div LimbBits + 1, Len(a)),
                       Pow2(n % LimbBits)).q)

RECURSIVE BitLenInt(_)
BitLenInt(n) == IF n = 0 THEN 0 ELSE 1 + BitLenInt(n \div 2)

BBitLen(a0) ==
    Bind(a0, LAMBDA a :
        IF a = <<>> THEN 0 ELSE LimbBits * (Len(a) - 1) + BitLenInt(a[Len(a)]))

BIsOdd(a0) == Bind(a0, LAMBDA a : a # <<>> /\ a[1] % 2 = 1)

BOne == <<1>>

(***************************************************************************)
(* Python floats: IEEE-754 binary64.  A finite nonzero value is            *)
(* (-1)^s * m * 2^e with m < 2^53, e >= MinExp, and m >= 2^52 unless       *)
(* e = MinExp (subnormal), so equal values have equal records.             *)
(***************************************************************************)
MantBits == 53

MinExp == -1074

MaxExp == 1023

FZero(s) == [k |-> "zero", s |-> s, m |-> <<>>, e |-> 0]

FInf(s) == [k |-> "inf", s |-> s, m |-> <<>>, e |-> 0]

FNaN == [k |-> "nan", s |-> 0, m |-> <<>>, e |-> 0]

FPack(s0, m0, e0) ==
    Bind3(s0, m0, e0, LAMBDA s, m, e :
        IF m = <<>> THEN FZero(s)
        ELSE IF e + BBitLen(m) - 1 > MaxExp THEN FInf(s)
        ELSE [k |-> "fin", s |-> s, m |-> m, e |-> e])

\* q or q + 1 as the remainder r of a division by 2^sh (with something below
\* it iff sticky) rounds down or up, ties to even
RoundHalfEven(q, r, sh, sticky) ==
    Bind(BCmp(r, BShl(BOne, sh - 1)), LAMBDA c :
        IF c > 0 \/ (c = 0 /\ (sticky \/ BIsOdd(q))) THEN BAdd(q, BOne) ELSE q)

\* The binary64 nearest to (-1)^s * (A + f) * 2^e, ties to even, where
\* 0 <= f < 1 and f > 0 iff sticky (sticky only with BBitLen(A) > MantBits).
RoundToDouble(s0, A0, e0, sticky0) ==
    Bind4(s0, A0, e0, sticky0, LAMBDA s, A, e, sticky :
        IF A = <<>> THEN FZero(s)
        ELSE Bind(Max(e + BBitLen(A) - MantBits, MinExp), LAMBDA elsb :
             IF elsb - e <= 0 THEN FPack(s, BShl(A, e - elsb), elsb)
             ELSE Bind(BShr(A, elsb - e), LAMBDA q :
                  Bind(RoundHalfEven(q, BSub(A, BShl(q, elsb - e)),
                                     elsb - e, sticky), LAMBDA q1 :
                      IF BBitLen(q1) > MantBits
                      THEN FPack(s, BShr(q1, 1), elsb + 1)
                      ELSE FPack(s, q1, elsb)))))

FIsNaN(x) == x.k = "nan"

FIsInf(x) == x.k = "inf"

FIsFinite(x) == x.k \in {"zero", "fin"}

FNeg(x0) == Bind(x0, LAMBDA x : IF x.k = "nan" THEN x ELSE [x EXCEPT !.s = 1 - x.s])

Xor(a, b) == (a + b) % 2

\* x * y
FMul(x0, y0) ==
    Bind2(x0, y0, LAMBDA x, y :
        IF x.k = "nan" \/ y.k = "nan" THEN FNaN
        ELSE IF x.k = "inf" \/ y.k = "inf"
        THEN (IF x.k = "zero" \/ y.k = "zero" THEN FNaN ELSE FInf(Xor(x.s, y.s)))
        ELSE IF x.k = "zero" \/ y.k = "zero" THEN FZero(Xor(x.s, y.s))
        ELSE RoundToDouble(Xor(x.s, y.s), BMul(x.m, y.m), x.e + y.e, FALSE))

\* x + y for finite nonzero x and y
AddFinite(x, y) ==
    Bind(Min(x.e, y.e), LAMBDA e0 :
    Bind2(BShl(x.m, x.e - e0), BShl(y.m, y.e - e0), LAMBDA a, b :
        IF x.s = y.s THEN RoundToDouble(x.s, BAdd(a, b), e0, FALSE)
        ELSE Bind(BCmp(a, b), LAMBDA c :
            IF c = 0 THEN FZero(0)
            ELSE IF c > 0 THEN RoundToDouble(x.s, BSub(a, b), e0, FALSE)
            ELSE RoundToDouble(y.s, BSub(b, a), e0, FALSE))))

\* x + y
FAdd(x0, y0) ==
    Bind2(x0, y0, LAMBDA x, y :
        IF x.k = "nan" \/ y.k = "nan" THEN FNaN
        ELSE IF x.k = "inf"
        THEN (IF y.k = "inf" /\ y.s # x.s THEN FNaN ELSE x)
        ELSE IF y.k = "inf" THEN y
        ELSE IF x.k = "zero" /\ y.k = "zero"
        THEN (IF x.s = 1 /\ y.s = 1 THEN FZero(1) ELSE FZero(0))
        ELSE IF x.k = "zero" THEN y
        ELSE IF y.k = "zero" THEN x
        ELSE AddFinite(x, y))

\* x - y
FSub(x, y) == FAdd(x, FNeg(y))

\* x == y  (a NaN equals nothing, the two zeros are equal)
FEq(x0, y0) ==
    Bind2(x0, y0, LAMBDA x, y :
        /\ x.k # "nan" /\ y.k # "nan"
        /\ \/ x.k = "zero" /\ y.k = "zero"
           \/ x = y)

\* x < y
FLt(x0, y0) ==
    Bind2(x0, y0, LAMBDA x, y :
        /\ x.k # "nan" /\ y.k # "nan"
        /\ ~FEq(x, y)
        /\ Bind(FSub(x, y), LAMBDA d :
               IF d.k = "nan" THEN FALSE  \* equal infinities, excluded above
               ELSE d.s = 1))

\* x >= y
FGe(x0, y0) ==
    Bind2(x0, y0, LAMBDA x, y : x.k # "nan" /\ y.k # "nan" /\ ~FLt(x, y))

\* x > y
FGt(x, y) == FLt(y, x)

(***************************************************************************)
(* Python ints: sign and magnitude; zero has neg = FALSE.                  *)
(***************************************************************************)
PyInt(neg, mag0) ==
    Bind(mag0, LAMBDA mag : [neg |-> neg /\ mag # <<>>, mag |-> mag])

IntOf(n) == IF n < 0 THEN PyInt(TRUE, BFromInt(-n)) ELSE PyInt(FALSE, BFromInt(n))

\* int -> float (PyLong_AsDouble): correctly rounded; an infinite result
\* stands for OverflowError("int too large to convert to float").
IntToDouble(n0) ==
    Bind(n0, LAMBDA n : RoundToDouble(IF n.neg THEN 1 ELSE 0, n.mag, 0, FALSE))

RECURSIVE BPow10(_)
BPow10(k) == IF k = 0 THEN BOne ELSE BMulSmall(BPow10(k - 1), 10)

\* floor(a / 10^k) and whether anything was cut off
RECURSIVE BDivPow10(_, _)
BDivPow10(a, k) ==
    IF k = 0 THEN [q |-> a, cut |-> FALSE]
    ELSE Bind(BDivSmall(a, 10), LAMBDA d :
         Bind(BDivPow10(d.q, k - 1), LAMBDA rest :
             IF d.r # 0 THEN [q |-> rest.q, cut |-> TRUE] ELSE rest))

\* The binary64 nearest to (-1)^s * d / 10^k: what float() makes of a decimal
\* numeral with digits d and k digits after the point (correctly rounded).
DecToDouble(s0, d0, k0) ==
    Bind3(s0, d0, k0, LAMBDA s, d, k :
        IF d = <<>> THEN FZero(s)
        ELSE Bind(Max(0, MantBits + 4 + BBitLen(BPow10(k)) - BBitLen(d)), LAMBDA t :
             Bind(BDivPow10(BShl(d, t), k), LAMBDA dv :
                 RoundToDouble(s, dv.q, -t, dv.cut))))

\* a / b for ints a and 0 < b < LimbBase (int true division, correctly rounded)
IntTrueDivSmall(a0, b0) ==
    Bind2(a0, b0, LAMBDA a, b :
        IF a.mag = <<>> THEN FZero(0)
        ELSE Bind(Max(0, MantBits + 4 + BitLenInt(b) - BBitLen(a.mag)), LAMBDA t :
             Bind(BDivSmall(BShl(a.mag, t), b), LAMBDA dv :
                 RoundToDouble(IF a.neg THEN 1 ELSE 0, dv.q, -t, dv.r # 0))))

\* int(x) of a finite float: truncation toward zero
FTrunc(x0) ==
    Bind(x0, LAMBDA x :
        IF x.k = "zero" THEN PyInt(FALSE, <<>>)
        ELSE IF x.e >= 0 THEN PyInt(x.s = 1, BShl(x.m, x.e))
        ELSE PyInt(x.s = 1, BShr(x.m, -x.e)))

\* round(x, 2): the decimal with 2 places nearest to the exact binary value,
\* ties to even, converted back to the nearest float.
Round2(x0) ==
    Bind(x0, LAMBDA x :
        IF x.k # "fin" THEN x
        ELSE IF x.e >= 0 THEN x
        ELSE Bind(BMulSmall(x.m, 100), LAMBDA A :
             Bind(BShr(A, -x.e), LAMBDA q :
                 DecToDouble(x.s,
                     RoundHalfEven(q, BSub(A, BShl(q, -x.e)), -x.e, FALSE), 2))))

(***************************************************************************)
(* Python objects.  A str holds its characters; an instance of a class of  *)
(* the test suite (FloatBad, StrBad, StrNum) or a bare object() holds its  *)
(* class.  Absent stands for a key the dict does not have.                 *)
(***************************************************************************)
Absent == [t |-> "absent"]

PyNone == [t |-> "None"]

BoolObj(b) == [t |-> "bool", b |-> b]

IntObj(n) == [t |-> "int", n |-> IntOf(n)]

BigIntObj(neg, mag) == [t |-> "int", n |-> PyInt(neg, mag)]

FloatObj(f) == [t |-> "float", f |-> f]

StrObj(cs) == [t |-> "str", chars |-> cs]

Instance(cls) == [t |-> "object", cls |-> cls]

\* dict.get(key, default)
DictGet(d, key, default) == IF d[key] = Absent THEN default ELSE d[key]

\* Outcomes of a conversion: a float, an int, a text, or an exception.
OkF(f) == [ok |-> TRUE, f |-> f, exc |-> ""]

ErrF(x) == [ok |-> FALSE, f |-> FNaN, exc |-> x]

OkI(n) == [ok |-> TRUE, n |-> n, exc |-> ""]

ErrI(x) == [ok |-> FALSE, n |-> IntOf(0), exc |-> x]

OkS(cs) == [ok |-> TRUE, chars |-> cs, exc |-> ""]

ErrS(x) == [ok |-> FALSE, chars |-> <<>>, exc |-> x]

Digits == <<"0", "1", "2", "3", "4", "5", "6", "7", "8", "9">>

IsDigit(c) == \E i \in 1..10 : Digits[i] = c

DigitVal(c) == (CHOOSE i \in 1..10 : Digits[i] = c) - 1

IsSpace(c) == c \in {" ", "\t", "\n", "\r"}

Lower(c) ==
    CASE c = "I" -> "i" [] c = "N" -> "n" [] c = "F" -> "f" [] c = "A" -> "a"
      [] c = "T" -> "t" [] c = "Y" -> "y" [] c = "E" -> "e" [] OTHER -> c

\* str.strip()
Strip(cs0) ==
    Bind(cs0, LAMBDA cs :
        IF \A i \in 1..Len(cs) : IsSpace(cs[i]) THEN <<>>
        ELSE SubSeq(cs,
                 CHOOSE i \in 1..Len(cs) :
                     ~IsSpace(cs[i]) /\ \A j \in 1..(i - 1) : IsSpace(cs[j]),
                 CHOOSE i \in 1..Len(cs) :
                     ~IsSpace(cs[i]) /\ \A j \in (i + 1)..Len(cs) : IsSpace(cs[j])))

\* An underscore is allowed only between two digits; the digits without them.
UnderscoresOk(cs0) ==
    Bind(cs0, LAMBDA cs :
        \A i \in 1..Len(cs) :
            cs[i] = "_" => /\ i > 1 /\ i < Len(cs)
                           /\ IsDigit(cs[i - 1]) /\ IsDigit(cs[i + 1]))

WithoutUnderscores(cs) == SelectSeq(cs, LAMBDA c : c # "_")

AllDigits(cs0) == Bind(cs0, LAMBDA cs : \A i \in 1..Len(cs) : IsDigit(cs[i]))

\* The number the first n of a run of decimal digits denote
RECURSIVE DigitsToNat(_, _)
DigitsToNat(cs, n) ==
    IF n = 0 THEN <<>>
    ELSE BMulAdd(DigitsToNat(cs, n - 1), 10, BFromInt(DigitVal(cs[n])))

HasSign(cs0) == Bind(cs0, LAMBDA cs : cs # <<>> /\ cs[1] \in {"+", "-"})

Unsigned(cs0) == Bind(cs0, LAMBDA cs : IF HasSign(cs) THEN Tail(cs) ELSE cs)

SignOf(cs0) == Bind(cs0, LAMBDA cs : IF cs # <<>> /\ cs[1] = "-" THEN 1 ELSE 0)

IndexOf(cs0, c) ==
    Bind(cs0, LAMBDA cs :
        IF \E i \in 1..Len(cs) : cs[i] = c
        THEN CHOOSE i \in 1..Len(cs) : cs[i] = c /\ \A j \in 1..(i - 1) : cs[j] # c
        ELSE 0)

\* int(text): optional blanks and sign, then decimal digits
IntFromText(cs) ==
    Bind(Strip(cs), LAMBDA st :
    Bind(Unsigned(st), LAMBDA body :
    Bind(WithoutUnderscores(body), LAMBDA ds :
        IF body # <<>> /\ UnderscoresOk(body) /\ AllDigits(ds)
        THEN OkI(PyInt(SignOf(st) = 1, DigitsToNat(ds, Len(ds))))
        ELSE ErrI("ValueError"))))

\* The parts of a numeral: the text before "e", split at ".", and the text
\* after "e"
NumeralParts(body) ==
    Bind(IndexOf(body, "e"), LAMBDA ePos :
    Bind2(IF ePos = 0 THEN body ELSE SubSeq(body, 1, ePos - 1),
          IF ePos = 0 THEN <<>> ELSE SubSeq(body, ePos + 1, Len(body)),
          LAMBDA mant, expo :
    Bind(IndexOf(mant, "."), LAMBDA dot :
        [ip     |-> IF dot = 0 THEN mant ELSE SubSeq(mant, 1, dot - 1),
         fp     |-> IF dot = 0 THEN <<>> ELSE SubSeq(mant, dot + 1, Len(mant)),
         hasExp |-> ePos # 0,
         expo   |-> expo])))

\* float(text): optional blanks and sign, then inf, infinity, nan, or a
\* decimal numeral with an optional fraction and an optional exponent;
\* the result is the binary64 nearest to the numeral.
FloatFromText(cs) ==
    Bind(Strip(cs), LAMBDA st :
    Bind2(SignOf(st), [i \in 1..Len(Unsigned(st)) |-> Lower(Unsigned(st)[i])],
          LAMBDA sg, body :
        IF body \in {<<"i", "n", "f">>, <<"i", "n", "f", "i", "n", "i", "t", "y">>}
        THEN OkF(FInf(sg))
        ELSE IF body = <<"n", "a", "n">> THEN OkF(FNaN)
        ELSE Bind(NumeralParts(body), LAMBDA p :
             Bind3(WithoutUnderscores(p.ip), WithoutUnderscores(p.fp),
                   WithoutUnderscores(Unsigned(p.expo)), LAMBDA ipd, fpd, exd :
                 IF ~(/\ UnderscoresOk(p.ip) /\ UnderscoresOk(p.fp)
                      /\ UnderscoresOk(Unsigned(p.expo))
                      /\ AllDigits(ipd) /\ AllDigits(fpd) /\ AllDigits(exd)
                      /\ Len(ipd) + Len(fpd) > 0
                      /\ (p.hasExp => exd # <<>>))
                 THEN ErrF("ValueError")
                 ELSE Bind2(DigitsToNat(ipd \o fpd, Len(ipd) + Len(fpd)),
                            Len(fpd) - BToInt(DigitsToNat(exd, Len(exd)))
                                       * (IF SignOf(p.expo) = 1 THEN -1 ELSE 1),
                            LAMBDA d, k :
                          IF k >= 0 THEN OkF(DecToDouble(sg, d, k))
                          ELSE OkF(RoundToDouble(sg, BMul(d, BPow10(-k)), 0, FALSE)))))))

\* The text of a natural number
RECURSIVE NatToText(_)
NatToText(a) ==
    IF BCmp(a, BFromInt(10)) < 0 THEN <<Digits[BToInt(a) + 1]>>
    ELSE Bind(BDivSmall(a, 10), LAMBDA d :
             NatToText(d.q) \o <<Digits[d.r + 1]>>)

\* What __float__ and __str__ of the classes of the test suite do
\* (FloatBad.__float__ raises TypeError; the others have no __float__, and
\* float() raises TypeError itself)
ClassFloat(cls) == ErrF("TypeError")

ClassStr(cls) ==
    CASE cls = "StrBad" -> ErrS("RuntimeError")
      [] cls = "StrNum" -> OkS(<<"2", ".", "5">>)
      [] OTHER -> OkS(<<"<", "o", "b", "j", "e", "c", "t", ">">>)

\* float(x)
PyFloat(x) ==
    CASE x.t = "None"   -> ErrF("TypeError")
      [] x.t = "bool"   -> OkF(IF x.b THEN IntToDouble(IntOf(1)) ELSE FZero(0))
      [] x.t = "int"    -> Bind(IntToDouble(x.n), LAMBDA f :
                               IF FIsInf(f) THEN ErrF("OverflowError") ELSE OkF(f))
      [] x.t = "float"  -> OkF(x.f)
      [] x.t = "str"    -> FloatFromText(x.chars)
      [] x.t = "object" -> ClassFloat(x.cls)

\* str(x), for the objects float(x) fails on
PyStr(x) ==
    CASE x.t = "None"   -> OkS(<<"N", "o", "n", "e">>)
      [] x.t = "int"    -> OkS((IF x.n.neg THEN <<"-">> ELSE <<>>) \o NatToText(x.n.mag))
      [] x.t = "str"    -> OkS(x.chars)
      [] x.t = "object" -> ClassStr(x.cls)

\* int(x)
PyIntOf(x) ==
    CASE x.t = "None"   -> ErrI("TypeError")
      [] x.t = "bool"   -> OkI(IntOf(IF x.b THEN 1 ELSE 0))
      [] x.t = "int"    -> OkI(x.n)
      [] x.t = "float"  -> IF FIsNaN(x.f) THEN ErrI("ValueError")
                           ELSE IF FIsInf(x.f) THEN ErrI("OverflowError")
                           ELSE OkI(FTrunc(x.f))
      [] x.t = "str"    -> IntFromText(x.chars)
      [] x.t = "object" -> ErrI("TypeError")

(***************************************************************************)
(* Dates: datetime.strptime(text, "%Y-%m-%d") and the day count of a       *)
(* difference of two datetimes.  A datetime is its date and whether it     *)
(* carries a time zone; the time of day never changes timedelta.days of    *)
(* (now - created), because created is a midnight.                         *)
(***************************************************************************)
Datetime(y, m, d) == [y |-> y, m |-> m, d |-> d, aware |-> FALSE]

AwareDatetime(y, m, d) == [y |-> y, m |-> m, d |-> d, aware |-> TRUE]

OkD(dt) == [ok |-> TRUE, dt |-> dt, exc |-> ""]

ErrD(x) == [ok |-> FALSE, dt |-> Datetime(1, 1, 1), exc |-> x]

IsLeap(y) == y % 4 = 0 /\ (y % 100 # 0 \/ y % 400 = 0)

DaysInMonth(y, m) ==
    IF m = 2 THEN (IF IsLeap(y) THEN 29 ELSE 28)
    ELSE IF m \in {4, 6, 9, 11} THEN 30 ELSE 31

RECURSIVE DaysBeforeMonth(_, _)
DaysBeforeMonth(y, m) ==
    IF m = 1 THEN 0 ELSE DaysBeforeMonth(y, m - 1) + DaysInMonth(y, m - 1)

\* date.toordinal()
Ordinal(dt0) ==
    Bind2(dt0, dt0.y - 1, LAMBDA dt, p :
        p * 365 + p \div 4 - p \div 100 + p \div 400
        + DaysBeforeMonth(dt.y, dt.m) + dt.d)

SmallNat(cs0) == Bind(cs0, LAMBDA cs : BToInt(DigitsToNat(cs, Len(cs))))

\* datetime.strptime(x, "%Y-%m-%d"): four digits, "-", a month 1..12 of one
\* or two digits, "-", a day 1..31 of one or two digits (or blank-padded),
\* and the date must exist.
Strptime(x) ==
    IF x.t # "str" THEN ErrD("TypeError")
    ELSE Bind(x.chars, LAMBDA cs :
         Bind(SubSeq(cs, 6, Len(cs)), LAMBDA rest :
         Bind(IndexOf(rest, "-"), LAMBDA dash :
         Bind2(SubSeq(rest, 1, dash - 1), SubSeq(rest, dash + 1, Len(rest)),
               LAMBDA mt, dt0 :
         Bind(IF Len(dt0) = 2 /\ dt0[1] = " " THEN Tail(dt0) ELSE dt0, LAMBDA dt :
             IF ~(/\ Len(cs) >= 8
                  /\ AllDigits(SubSeq(cs, 1, 4)) /\ cs[5] = "-"
                  /\ dash # 0
                  /\ Len(mt) \in {1, 2} /\ AllDigits(mt)
                  /\ Len(dt) \in {1, 2} /\ AllDigits(dt)
                  /\ SmallNat(mt) \in 1..12
                  /\ SmallNat(dt) \in 1..31)
             THEN ErrD("ValueError")
             ELSE Bind3(SmallNat(SubSeq(cs, 1, 4)), SmallNat(mt), SmallNat(dt),
                        LAMBDA y, m, d :
                      IF y < 1 \/ d > DaysInMonth(y, m) THEN ErrD("ValueError")
                      ELSE OkD(Datetime(y, m, d))))))))

\* (a - b).days, or TypeError when only one of the two carries a time zone
DaysBetween(a, b) ==
    IF a.aware # b.aware THEN ErrI("TypeError")
    ELSE OkI(IntOf(Ordinal(a) - Ordinal(b)))

(***************************************************************************)
(* calc_score(events, user, now=None)                                      *)
(***************************************************************************)
\* The float literals of the source
Lit0_0 == FZero(0)

Lit0_005 == DecToDouble(0, BFromInt(5), 3)

Lit1_0 == DecToDouble(0, BFromInt(10), 1)

Lit1_1 == DecToDouble(0, BFromInt(11), 1)

Lit1_2 == DecToDouble(0, BFromInt(12), 1)

\* float(str(raw)), else 0.0: the second and third tries of the value
ValueViaText(raw) ==
    Bind(PyStr(raw), LAMBDA text :
        IF ~text.ok THEN Lit0_0
        ELSE Bind(FloatFromText(text.chars), LAMBDA viaText :
                 IF viaText.ok THEN viaText.f ELSE Lit0_0))

\* float(value), else 0.0: the text form never tried
ValueDirectOnly(e) ==
    Bind(PyFloat(DictGet(e, "value", PyNone)), LAMBDA direct :
        IF direct.ok THEN direct.f ELSE Lit0_0)

\* v of one event: float(value), else float(str(value)), else 0.0
ValueOf(e) ==
    Bind(DictGet(e, "value", PyNone), LAMBDA raw :
    Bind(PyFloat(raw), LAMBDA direct :
        IF direct.ok THEN direct.f ELSE ValueViaText(raw)))

IntLt0(n) == n.neg /\ n.mag # <<>>

IntEq0(n) == n.mag = <<>>

\* int(weight), 1 when that fails, negative weights kept
WeightNoClamp(e) ==
    Bind(PyIntOf(DictGet(e, "weight", IntObj(1))), LAMBDA r :
        IF r.ok THEN r.n ELSE IntOf(1))

\* int(weight), 0 when that fails, 0 when negative
WeightDefaultZero(e) ==
    Bind(PyIntOf(DictGet(e, "weight", IntObj(1))), LAMBDA r :
        IF r.ok /\ ~IntLt0(r.n) THEN r.n ELSE IntOf(0))

\* w of one event: int(weight), 1 when that fails, 0 when negative
WeightOf(e) ==
    Bind(PyIntOf(DictGet(e, "weight", IntObj(1))), LAMBDA r :
    Bind(IF r.ok THEN r.n ELSE IntOf(1), LAMBDA w0 :
    Bind(IF IntLt0(w0) THEN IntOf(0) ELSE w0, LAMBDA w1 :
        IF IntEq0(w1) THEN IntOf(0) ELSE w1)))

\* v * w, a float times an int: the int is converted to a float first
FloatTimesInt(x, n) ==
    Bind(IntToDouble(n), LAMBDA nf :
        IF FIsInf(nf) THEN ErrF("OverflowError") ELSE OkF(FMul(x, nf)))

\* years with the lower clamp only
ClampYearsLoose(years) ==
    IF years.neg /\ BCmp(years.mag, BFromInt(1)) >= 0 THEN IntOf(0) ELSE years

\* years as the two clamps of the source leave it
ClampYears(years) ==
    Bind(IF ~years.neg /\ BCmp(years.mag, BFromInt(7)) >= 0
         THEN IntOf(6) ELSE years, LAMBDA y1 :
        IF y1.neg /\ BCmp(y1.mag, BFromInt(1)) >= 0 THEN IntOf(0) ELSE y1)

\* years of the loyalty step; not ok when the try block raises
LoyaltyYears(u, nw) ==
    Bind(Strptime(DictGet(u, "created_at", StrObj(<<>>))), LAMBDA created :
        IF ~created.ok THEN ErrI(created.exc)
        ELSE Bind(DaysBetween(nw, created.dt), LAMBDA days :
                 IF ~days.ok THEN ErrI(days.exc)
                 ELSE OkI(ClampYears(FTrunc(IntTrueDivSmall(days.n, 365))))))

\* bonus of the loyalty step
LoyaltyBonus(u, nw) ==
    Bind(LoyaltyYears(u, nw), LAMBDA years :
        IF years.ok THEN FMul(IntToDouble(years.n), Lit0_005)
        ELSE FAdd(Lit0_0, Lit0_0))

\* the multipliers of vip and pro exchanged
TierMultiplierSwapped(u) ==
    Bind(DictGet(u, "tier", PyNone), LAMBDA tier :
        IF tier = StrObj(<<"v", "i", "p">>) THEN Lit1_1
        ELSE IF tier = StrObj(<<"p", "r", "o">>) THEN Lit1_2
        ELSE Lit1_0)

\* the multiplier of the tier (lines 65-74)
TierMultiplier(u) ==
    Bind(DictGet(u, "tier", PyNone), LAMBDA tier :
        IF tier = StrObj(<<"v", "i", "p">>) THEN Lit1_2
        ELSE IF tier = StrObj(<<"p", "r", "o">>) THEN Lit1_1
        ELSE Lit1_0)

\* the bonus applied as a factor: total * (1 - bonus)
ApplyBonusAsProduct(t, b) == FMul(t, FSub(Lit1_0, b))

\* the bonus itself subtracted: total - bonus
ApplyBonusFlat(t, b) == FSub(t, b)

\* total - (total * bonus)  (line 63)
ApplyBonus(t, b) == FSub(t, FMul(t, b))


(***************************************************************************)
(* decimal.Decimal, as divide uses it.  A Decimal is a sign, the digits of *)
(* its coefficient (most significant first, <<0>> for zero) and an         *)
(* exponent; an infinity; or a quiet or signaling NaN with the digits of   *)
(* its payload.  The context is the default one: precision 28, rounding    *)
(* half-even, Emax 999999, Emin -999999, and the traps InvalidOperation,   *)
(* DivisionByZero and Overflow.                                            *)
(***************************************************************************)
Prec == 28

Emax == 999999

Emin == -999999

Etiny == Emin - Prec + 1

Etop == Emax - Prec + 1

DFinite(s, d, e) == [k |-> "fin", s |-> s, d |-> d, e |-> e]

DInf(s) == [k |-> "inf", s |-> s, d |-> <<0>>, e |-> 0]

DNaN(s, payload) == [k |-> "nan", s |-> s, d |-> payload, e |-> 0]

DSNaN(s, payload) == [k |-> "snan", s |-> s, d |-> payload, e |-> 0]

DecimalObj(x) == [t |-> "Decimal", dec |-> x]

OkDec(x) == [ok |-> TRUE, dec |-> x, exc |-> ""]

ErrDec(x) == [ok |-> FALSE, dec |-> DNaN(0, <<>>), exc |-> x]

\* ds without its leading zeros, <<>> when nothing else is left
LStripZeros(ds0) ==
    Bind(ds0, LAMBDA ds :
        IF \A j \in 1..Len(ds) : ds[j] = 0 THEN <<>>
        ELSE SubSeq(ds, CHOOSE j \in 1..Len(ds) :
                            ds[j] # 0 /\ \A h \in 1..(j - 1) : ds[h] = 0,
                    Len(ds)))

\* n times: the last decimal digit of st.q moved to the front of st.d
\* (halving n so that long numbers do not nest deeply)
RECURSIVE PeelDigits(_, _)
PeelDigits(st, n) ==
    IF n = 0 THEN st
    ELSE IF n = 1
    THEN Bind(BDivSmall(st.q, 10), LAMBDA dv : [q |-> dv.q, d |-> <<dv.r>> \o st.d])
    ELSE Bind(PeelDigits(st, n \div 2), LAMBDA half :
             PeelDigits(half, n - n \div 2))

\* the digits of a natural number (a number of b bits has at most
\* b * 3 / 8 + 1 digits)
DigitSeq(a0) ==
    Bind(a0, LAMBDA a :
        Bind(LStripZeros(PeelDigits([q |-> a, d |-> <<>>],
                                    (BBitLen(a) * 3) \div 8 + 1).d), LAMBDA ds :
            IF ds = <<>> THEN <<0>> ELSE ds))

\* acc followed by the digits lo..hi of ds, as a natural number
RECURSIVE AppendDigits(_, _, _, _)
AppendDigits(acc, ds, lo, hi) ==
    IF lo > hi THEN acc
    ELSE IF lo = hi THEN BMulAdd(acc, 10, BFromInt(ds[lo]))
    ELSE Bind((lo + hi) \div 2, LAMBDA mid :
         Bind(AppendDigits(acc, ds, lo, mid), LAMBDA left :
             AppendDigits(left, ds, mid + 1, hi)))

\* the natural number the first n digits of ds denote
DigitSeqToNat(ds0, n0) == Bind2(ds0, n0, LAMBDA ds, n : AppendDigits(<<>>, ds, 1, n))

\* str(int(text)) of a run of digit characters: the coefficient
Coefficient(cs) ==
    Bind(LStripZeros([j \in 1..Len(cs) |-> DigitVal(cs[j])]), LAMBDA ds :
        IF ds = <<>> THEN <<0>> ELSE ds)

\* the number of zero bits below the lowest one bit of m, m not zero
TrailingZeroBits(m0) ==
    Bind(m0, LAMBDA m :
        Bind(CHOOSE j \in 1..Len(m) : m[j] # 0 /\ \A h \in 1..(j - 1) : m[h] = 0,
             LAMBDA j :
            LimbBits * (j - 1)
            + (CHOOSE t \in 0..(LimbBits - 1) :
                   m[j] % Pow2(t + 1) # 0 /\ m[j] % Pow2(t) = 0)))

\* a * 5^k
RECURSIVE BTimesPow5(_, _)
BTimesPow5(a, k) ==
    IF k = 0 THEN a
    ELSE IF k = 1 THEN BMulSmall(a, 5)
    ELSE Bind(BTimesPow5(a, k \div 2), LAMBDA half : BTimesPow5(half, k - k \div 2))

\* Decimal.from_float: the exact value n / 2^k of the float, n odd or
\* k = 0, as the coefficient n * 5^k with the exponent -k
DecimalFromFloat(f0) ==
    Bind(f0, LAMBDA f :
        CASE f.k = "nan"  -> DNaN(0, <<>>)
          [] f.k = "inf"  -> DInf(f.s)
          [] f.k = "zero" -> DFinite(f.s, <<0>>, 0)
          [] OTHER ->
               IF f.e >= 0 THEN DFinite(f.s, DigitSeq(BShl(f.m, f.e)), 0)
               ELSE Bind(Min(TrailingZeroBits(f.m), -f.e), LAMBDA t :
                        DFinite(f.s,
                                DigitSeq(BTimesPow5(BShr(f.m, t), -f.e - t)),
                                f.e + t)))

DLower(c) == IF c = "S" THEN "s" ELSE Lower(c)

\* the value of the digits of an exponent (at most 9 digits are modelled)
ExponentValue(cs) == BToInt(DigitsToNat(cs, Len(cs)))

\* Decimal(text): blanks stripped and underscores dropped, then an optional
\* sign and a numeral with at least one digit, an optional fraction and an
\* optional exponent; or inf, infinity; or nan, snan with optional payload
\* digits.  Anything else is InvalidOperation (ConversionSyntax), and so
\* is an exponent out of the range of the implementation (modelled as: of
\* more than 9 digits).
DecimalFromText(cs) ==
    Bind(WithoutUnderscores(Strip(cs)), LAMBDA st :
    Bind2(SignOf(st), [j \in 1..Len(Unsigned(st)) |-> DLower(Unsigned(st)[j])],
          LAMBDA sg, body :
        IF body \in {<<"i", "n", "f">>, <<"i", "n", "f", "i", "n", "i", "t", "y">>}
        THEN OkDec(DInf(sg))
        ELSE IF Len(body) >= 3 /\ SubSeq(body, 1, 3) = <<"n", "a", "n">>
                /\ AllDigits(SubSeq(body, 4, Len(body)))
        THEN OkDec(DNaN(sg, LStripZeros(
                 [j \in 1..(Len(body) - 3) |-> DigitVal(body[j + 3])])))
        ELSE IF Len(body) >= 4 /\ SubSeq(body, 1, 4) = <<"s", "n", "a", "n">>
                /\ AllDigits(SubSeq(body, 5, Len(body)))
        THEN OkDec(DSNaN(sg, LStripZeros(
                 [j \in 1..(Len(body) - 4) |-> DigitVal(body[j + 4])])))
        ELSE Bind(NumeralParts(body), LAMBDA p :
             Bind(Unsigned(p.expo), LAMBDA exd :
                 IF ~(/\ AllDigits(p.ip) /\ AllDigits(p.fp) /\ AllDigits(exd)
                      /\ Len(p.ip) + Len(p.fp) > 0
                      /\ (p.hasExp => exd # <<>>)
                      /\ Len(LStripZeros([j \in 1..Len(exd) |-> DigitVal(exd[j])])) <= 9)
                 THEN ErrDec("InvalidOperation")
                 ELSE OkDec(DFinite(sg, Coefficient(p.ip \o p.fp),
                          ExponentValue(exd) * (IF SignOf(p.expo) = 1 THEN -1 ELSE 1)
                          - Len(p.fp)))))))

\* Decimal(x)
ToDecimal(x) ==
    CASE x.t = "bool"    -> OkDec(DFinite(0, IF x.b THEN <<1>> ELSE <<0>>, 0))
      [] x.t = "int"     -> OkDec(DFinite(IF x.n.neg THEN 1 ELSE 0,
                                          IF x.n.mag = <<>> THEN <<0>>
                                          ELSE DigitSeq(x.n.mag), 0))
      [] x.t = "float"   -> OkDec(DecimalFromFloat(x.f))
      [] x.t = "str"     -> DecimalFromText(x.chars)
      [] x.t = "Decimal" -> OkDec(x.dec)
      [] OTHER           -> ErrDec("TypeError")

\* x == 0 for a Decimal x: a signaling NaN is an InvalidOperation, which
\* the context traps
DecimalIsZero(x) ==
    IF x.k = "snan" THEN [ok |-> FALSE, b |-> FALSE, exc |-> "InvalidOperation"]
    ELSE [ok |-> TRUE, b |-> (x.k = "fin" /\ x.d = <<0>>), exc |-> ""]

\* a NaN as an operation returns it: quiet, its payload cut to the precision
FixNaN(x) ==
    DNaN(x.s, IF Len(x.d) > Prec
              THEN LStripZeros(SubSeq(x.d, Len(x.d) - Prec + 1, Len(x.d)))
              ELSE x.d)

\* -1, 0, 1: whether cutting ds to its first n digits, rounding half-even,
\* rounds down inexactly, is exact, or rounds up
RoundHalfEvenDigits(ds0, n0) ==
    Bind2(ds0, n0, LAMBDA ds, n :
        Bind(\A j \in (n + 2)..Len(ds) : ds[j] = 0, LAMBDA restZero :
            IF ds[n + 1] = 5 /\ restZero /\ (n = 0 \/ ds[n] % 2 = 0) THEN -1
            ELSE IF ds[n + 1] >= 5 THEN 1
            ELSE IF ds[n + 1] = 0 /\ restZero THEN 0
            ELSE -1))

\* Decimal._fix: the result of an operation rounded to the precision and
\* to the exponent range of the context; Overflow is trapped
DFix(x0) ==
    Bind(x0, LAMBDA x :
        IF x.k = "nan" \/ x.k = "snan" THEN OkDec(FixNaN(x))
        ELSE IF x.k = "inf" THEN OkDec(x)
        ELSE IF x.d = <<0>> THEN OkDec(DFinite(x.s, <<0>>, Min(Max(x.e, Etiny), Emax)))
        ELSE IF Len(x.d) + x.e - Prec > Etop THEN ErrDec("Overflow")
        ELSE Bind(Max(Len(x.d) + x.e - Prec, Etiny), LAMBDA expMin :
             IF x.e >= expMin THEN OkDec(x)
             ELSE Bind(Len(x.d) + x.e - expMin, LAMBDA digits :
                  Bind2(IF digits < 0 THEN <<1>> ELSE x.d, Max(digits, 0),
                        LAMBDA src, n :
                  Bind2(RoundHalfEvenDigits(src, n),
                        IF n = 0 THEN <<0>> ELSE SubSeq(src, 1, n),
                        LAMBDA changed, cut :
                  Bind(IF changed > 0
                       THEN DigitSeq(BAdd(DigitSeqToNat(cut, Len(cut)), BOne))
                       ELSE cut, LAMBDA coeff :
                      IF Len(coeff) > Prec
                      THEN (IF expMin + 1 > Etop THEN ErrDec("Overflow")
                            ELSE OkDec(DFinite(x.s, SubSeq(coeff, 1, Len(coeff) - 1),
                                               expMin + 1)))
                      ELSE OkDec(DFinite(x.s, coeff, expMin))))))))

\* quotient digits (most significant first) and remainder of the digits
\* lo..hi of a divided by the natural number b, r carried in from the left
RECURSIVE LongDivRange(_, _, _, _, _)
LongDivRange(a, b, lo, hi, r) ==
    IF lo = hi
    THEN Bind(BMulAdd(r, 10, BFromInt(a[lo])), LAMBDA cur :
         Bind(CHOOSE q \in 0..9 :
                  /\ BCmp(BMulSmall(b, q), cur) <= 0
                  /\ BCmp(BMulSmall(b, q + 1), cur) > 0, LAMBDA q :
             [q |-> <<q>>, r |-> BSub(cur, BMulSmall(b, q))]))
    ELSE Bind((lo + hi) \div 2, LAMBDA mid :
         Bind(LongDivRange(a, b, lo, mid, r), LAMBDA L :
         Bind(LongDivRange(a, b, mid + 1, hi, L.r), LAMBDA H :
             [q |-> L.q \o H.q, r |-> H.r])))

\* divmod(int(a), int(b)) of two digit sequences, b not zero
DigitsDivMod(a0, b0) ==
    Bind2(a0, DigitSeqToNat(b0, Len(b0)), LAMBDA a, b :
        Bind(LongDivRange(a, b, 1, Len(a), <<>>), LAMBDA dv :
            [q |-> IF LStripZeros(dv.q) = <<>> THEN <<0>> ELSE LStripZeros(dv.q),
             r |-> dv.r]))

\* the number of zeros at the end of the digits ds, not all of them zero
TrailingZeros(ds0) ==
    Bind(ds0, LAMBDA ds :
        Len(ds) - (CHOOSE j \in 1..Len(ds) :
                       ds[j] # 0 /\ \A h \in (j + 1)..Len(ds) : ds[h] = 0))

\* trailing zeros of the coefficient ds dropped, each raising the exponent e
\* by one, while the exponent is below top
DropZerosUpTo(ds0, e0, top) ==
    Bind2(ds0, e0, LAMBDA ds, e :
        Bind(Min(TrailingZeros(ds), Max(top - e, 0)), LAMBDA n :
            [d |-> SubSeq(ds, 1, Len(ds) - n), e |-> e + n]))

\* x / y (Decimal.__truediv__), y not zero
DecimalDivide(x0, y0) ==
    Bind3(x0, y0, (x0.s + y0.s) % 2, LAMBDA x, y, sign :
        IF x.k = "snan" \/ y.k = "snan" THEN ErrDec("InvalidOperation")
        ELSE IF x.k = "nan" THEN OkDec(FixNaN(x))
        ELSE IF y.k = "nan" THEN OkDec(FixNaN(y))
        ELSE IF x.k = "inf" /\ y.k = "inf" THEN ErrDec("InvalidOperation")
        ELSE IF x.k = "inf" THEN OkDec(DInf(sign))
        ELSE IF y.k = "inf" THEN OkDec(DFinite(sign, <<0>>, Etiny))
        ELSE IF x.d = <<0>> THEN DFix(DFinite(sign, <<0>>, x.e - y.e))
        ELSE Bind(Len(y.d) - Len(x.d) + Prec + 1, LAMBDA shift :
             Bind(IF shift >= 0
                  THEN DigitsDivMod(x.d \o [j \in 1..shift |-> 0], y.d)
                  ELSE DigitsDivMod(x.d, y.d \o [j \in 1..(-shift) |-> 0]),
                  LAMBDA dv :
                 IF dv.r # <<>>
                 THEN DFix(DFinite(sign,
                          IF dv.q[Len(dv.q)] % 5 = 0
                          THEN SubSeq(dv.q, 1, Len(dv.q) - 1) \o <<dv.q[Len(dv.q)] + 1>>
                          ELSE dv.q,
                          x.e - y.e - shift))
                 ELSE Bind(DropZerosUpTo(dv.q, x.e - y.e - shift, x.e - y.e),
                           LAMBDA t : DFix(DFinite(sign, t.d, t.e))))))

\* x.normalize()
DecimalNormalize(x0) ==
    Bind(x0, LAMBDA x :
        IF x.k = "snan" THEN ErrDec("InvalidOperation")
        ELSE IF x.k = "nan" THEN OkDec(FixNaN(x))
        ELSE Bind(DFix(x), LAMBDA dup :
             IF ~dup.ok \/ dup.dec.k = "inf" THEN dup
             ELSE IF dup.dec.d = <<0>> THEN OkDec(DFinite(dup.dec.s, <<0>>, 0))
             ELSE Bind(DropZerosUpTo(dup.dec.d, dup.dec.e, Emax), LAMBDA t :
                      OkDec(DFinite(dup.dec.s, t.d, t.e)))))

\* (num / den).normalize()
Quotient(x, y) ==
    Bind(DecimalDivide(x, y), LAMBDA q :
        IF q.ok THEN DecimalNormalize(q.dec) ELSE q)
(***************************************************************************)
(* The state of a call and of the process making the calls.                *)
(***************************************************************************)
RetNone == [kind |-> "none", val |-> Lit0_0, exc |-> ""]

RetValue(f) == [kind |-> "value", val |-> f, exc |-> ""]

RetRaise(x) == [kind |-> "raise", val |-> Lit0_0, exc |-> x]

Event(value, weight) == [value |-> value, weight |-> weight]

User(tier, created) == [tier |-> tier, created_at |-> created]

DatetimeObj(dt) == [t |-> "datetime", dt |-> dt]

NoCall == [set |-> FALSE, events |-> <<>>, user |-> User(Absent, Absent),
           nowArg |-> PyNone, now |-> Datetime(1, 1, 1), ret |-> RetNone]

VARIABLES
    events,   \* argument: the list of event dicts
    user,     \* argument: the user dict
    nowArg,   \* argument: None or a datetime
    clock,    \* what datetime.utcnow() returns
    pc,       \* idle, loop, tier, round, done, raised
    i,        \* index of the next event of the for loop
    now,      \* local now
    v,        \* local v, the value of the last event
    w,        \* local w, the weight of the last event
    total,    \* local total
    bonus,    \* local bonus
    ret,      \* what the call returned or raised
    prev      \* an earlier finished call: its arguments, its now, its result

\* divide(numerator, denominator) of mathoperation/division.py
VARIABLES
    numerator,    \* argument
    denominator,  \* argument
    num,          \* local num
    den,          \* local den
    dpc,          \* idle, convert, check, quotient, done, raised
    dret          \* what the call returned or raised

dvars == <<numerator, denominator, num, den, dpc, dret>>

vars == <<events, user, nowArg, clock, pc, i, now, v, w, total, bonus, ret, prev,
          numerator, denominator, num, den, dpc, dret>>

DRetNone == [kind |-> "none", val |-> DNaN(0, <<>>), exc |-> ""]

DRetValue(x) == [kind |-> "value", val |-> x, exc |-> ""]

DRetRaise(x) == [kind |-> "raise", val |-> DNaN(0, <<>>), exc |-> x]

\* no call of divide has been made
DivideIdle ==
    /\ numerator = PyNone
    /\ denominator = PyNone
    /\ num = DNaN(0, <<>>)
    /\ den = DNaN(0, <<>>)
    /\ dpc = "idle"
    /\ dret = DRetNone

(***************************************************************************)
(* The inputs the calls are drawn from.                                    *)
(***************************************************************************)
MaxEvents == 2

\* sys.float_info.max
FloatMax ==
    [k |-> "fin", s |-> 0, m |-> BSub(BShl(BOne, MantBits), BOne),
     e |-> MaxExp + 1 - MantBits]

T(cs) == StrObj(cs)

EventPool ==
    { Event(T(<<"1", ".", "5">>), T(<<"2">>)),
      Event(T(<<"1", "0", "0">>), T(<<"1">>)),
      Event(T(<<"5", ".", "8">>), Absent),
      Event(T(<<"1", "0">>), IntObj(-5)),
      Event(T(<<"n", "a", "n">>), T(<<"-", "0">>)),
      Event(T(<<"i", "n", "f">>), IntObj(1)),
      Event(FloatObj(FloatMax), BoolObj(TRUE)),
      Event(IntObj(1), BigIntObj(FALSE, BShl(BOne, MaxExp + 1))) }

\* events whose fields are absent, null, or objects of the test suite
ObjectEventPool ==
    { Event(PyNone, FloatObj(DecToDouble(0, BFromInt(29), 1))),
      Event(Absent, IntObj(-5)),
      Event(Instance("StrNum"), PyNone),
      Event(Instance("StrBad"), T(<<"b", "a", "d">>)),
      Event(Instance("FloatBad"), FloatObj(FNaN)),
      Event(T(<<"5", ".", "8">>), Absent),
      Event(T(<<"1", "0", "0">>), T(<<"1">>)) }

Vip == T(<<"v", "i", "p">>)

Pro == T(<<"p", "r", "o">>)

Free == T(<<"f", "r", "e", "e">>)

Date2018 == T(<<"2", "0", "1", "8", "-", "0", "1", "-", "0", "1">>)

Date2020 == T(<<"2", "0", "2", "0", "-", "0", "1", "-", "0", "1">>)

Date2024 == T(<<"2", "0", "2", "4", "-", "0", "1", "-", "0", "1">>)

Date2030 == T(<<"2", "0", "3", "0", "-", "0", "1", "-", "0", "1">>)

BadDate == T(<<"b", "a", "d", "-", "d", "a", "t", "e">>)

UserPool ==
    { User(Vip, Date2018), User(Pro, Date2020), User(Free, Date2020),
      User(Free, Date2030), User(Absent, BadDate), User(Vip, Absent) }

Now2025 == DatetimeObj(Datetime(2025, 1, 1))

\* 2025-01-01 with a time zone: created cannot be subtracted from it
Now2025Aware == DatetimeObj(AwareDatetime(2025, 1, 1))

NowPool == { PyNone, Now2025, Now2025Aware }

Clock0 == Datetime(2026, 1, 1)

Lists(S, n) == UNION {[1..k -> S] : k \in 0..n}

(***************************************************************************)
(* The state machine: one action per stretch of calc_score.                *)
(***************************************************************************)
Init ==
    /\ events = <<>>
    /\ user = User(Absent, Absent)
    /\ nowArg = PyNone
    /\ clock = Clock0
    /\ pc = "idle"
    /\ i = 1
    /\ now = Clock0
    /\ v = Lit0_0
    /\ w = IntOf(0)
    /\ total = Lit0_0
    /\ bonus = Lit0_0
    /\ ret = RetNone
    /\ prev = NoCall
    /\ DivideIdle

\* total carried over from the call before
InitialTotalKept(t) == t

\* total = 0.0 (line 16)
InitialTotal(t) == Lit0_0

\* The entry of calc_score(ev, u, n): the arguments are bound, now defaults
\* to the clock (lines 13-14), total = 0.0 (line 16); the other locals are
\* not bound yet and hold their initial values
Enter(ev, u, n) ==
    /\ events' = ev
    /\ user' = u
    /\ nowArg' = n
    /\ now' = IF n = PyNone THEN clock ELSE n.dt
    /\ total' = InitialTotal(total)
    /\ i' = 1
    /\ v' = Lit0_0
    /\ w' = IntOf(0)
    /\ bonus' = Lit0_0
    /\ ret' = RetNone
    /\ pc' = "loop"
    /\ UNCHANGED <<clock, prev>>
    /\ UNCHANGED dvars

\* A call with any arguments of the pools
Call ==
    /\ pc = "idle"
    /\ \E ev \in Lists(EventPool, MaxEvents), u \in UserPool, n \in NowPool :
           Enter(ev, u, n)

\* total = v * w: the product replaces the running total
AccumulateLast(t, p) == p

\* total + (v * w) (line 42)
Accumulate(t, p) == FAdd(t, p)

\* One iteration of the for loop (lines 18-42); v * w may raise
LoopStep ==
    /\ pc = "loop"
    /\ i <= Len(events)
    /\ v' = ValueOf(events[i])
    /\ w' = WeightOf(events[i])
    /\ \E prod \in {FloatTimesInt(v', w')} :
           IF prod.ok
           THEN /\ total' = Accumulate(total, prod.f)
                /\ i' = i + 1
                /\ UNCHANGED <<pc, ret>>
           ELSE /\ pc' = "raised"
                /\ ret' = RetRaise(prod.exc)
                /\ UNCHANGED <<total, i>>
    /\ UNCHANGED <<events, user, nowArg, clock, now, bonus, prev>>
    /\ UNCHANGED dvars

\* The loyalty step, once the loop is over (lines 44-63)
Loyalty ==
    /\ pc = "loop"
    /\ i > Len(events)
    /\ bonus' = LoyaltyBonus(user, now)
    /\ total' = ApplyBonus(total, bonus')
    /\ pc' = "tier"
    /\ UNCHANGED <<events, user, nowArg, clock, i, now, v, w, ret, prev>>
    /\ UNCHANGED dvars

\* The tier multiplier (lines 65-74)
Tier ==
    /\ pc = "tier"
    /\ total' = FMul(total, TierMultiplier(user))
    /\ pc' = "round"
    /\ UNCHANGED <<events, user, nowArg, clock, i, now, v, w, bonus, ret, prev>>
    /\ UNCHANGED dvars

\* The two roundings and the return (lines 76-78)
\* round(t, 1): a second rounding at another scale
RoundAgainToOne(t0) ==
    Bind(t0, LAMBDA x :
        IF x.k # "fin" THEN x
        ELSE IF x.e >= 0 THEN x
        ELSE Bind(BMulSmall(x.m, 10), LAMBDA A :
             Bind(BShr(A, -x.e), LAMBDA q :
                 DecToDouble(x.s,
                     RoundHalfEven(q, BSub(A, BShl(q, -x.e)), -x.e, FALSE), 1))))

\* return round(total, 2): the second of the two roundings
RoundAgain(t0) == Round2(t0)

Round ==
    /\ pc = "round"
    /\ total' = Round2(total)
    /\ ret' = RetValue(RoundAgain(total'))
    /\ pc' = "done"
    /\ UNCHANGED <<events, user, nowArg, clock, i, now, v, w, bonus, prev>>
    /\ UNCHANGED dvars

Next ==
    \/ Call
    \/ LoopStep
    \/ Loyalty
    \/ Tier
    \/ Round

Spec == Init /\ [][Next]_vars

(***************************************************************************)
(* One call whose events hold objects of every kind.                       *)
(***************************************************************************)
ObjectUserPool == { User(Pro, Date2020), User(Free, Absent) }

CallWithObjects ==
    /\ pc = "idle"
    /\ \E ev \in Lists(ObjectEventPool, MaxEvents), u \in ObjectUserPool :
           Enter(ev, u, Now2025)

NextObjects ==
    \/ CallWithObjects
    \/ LoopStep
    \/ Loyalty
    \/ Tier
    \/ Round

SpecObjects == Init /\ [][NextObjects]_vars

(***************************************************************************)
(* A process that calls calc_score again and again while the clock moves   *)
(* on.  prev keeps one of the finished calls to compare a later call with. *)
(***************************************************************************)
Hundred == Event(T(<<"1", "0", "0">>), T(<<"1">>))

MinusTen == Event(T(<<"-", "1", "0">>), T(<<" ", "1", " ">>))

Thousandth == Event(T(<<"0", ".", "0", "0", "1">>), Absent)

EventListPool ==
    { <<>>, <<Hundred>>, <<MinusTen>>, <<Thousandth>>, <<Hundred, MinusTen>>,
      <<Event(FloatObj(FloatMax), BoolObj(TRUE))>> }

CallUserPool == { User(Vip, Date2024), User(Pro, Date2024), User(Free, Date2024) }

Clock1 == Datetime(2027, 1, 1)

\* A call with arguments of the small pools
CallAgain ==
    /\ pc = "idle"
    /\ \E ev \in EventListPool, u \in CallUserPool, n \in {PyNone, Now2025} : Enter(ev, u, n)

\* The caller takes the result (or the exception) and may keep it
Finish ==
    /\ pc \in {"done", "raised"}
    /\ pc' = "idle"
    /\ prev' \in {prev, [set |-> TRUE, events |-> events, user |-> user,
                          nowArg |-> nowArg, now |-> now, ret |-> ret]}
    /\ UNCHANGED <<events, user, nowArg, clock, i, now, v, w, total, bonus, ret>>
    /\ UNCHANGED dvars

\* Time passes
Tick ==
    /\ clock = Clock0
    /\ clock' = Clock1
    /\ UNCHANGED <<events, user, nowArg, pc, i, now, v, w, total, bonus, ret, prev>>
    /\ UNCHANGED dvars

NextCalls ==
    \/ CallAgain
    \/ LoopStep
    \/ Loyalty
    \/ Tier
    \/ Round
    \/ Finish
    \/ Tick

SpecCalls == Init /\ [][NextCalls]_vars


(***************************************************************************)
(* The refactored calc_score: value parsing and weight parsing factored    *)
(* into two helpers called from the main function, the rest of the         *)
(* function as it was.                                                     *)
(***************************************************************************)
\* the helper of the value: float(x), else float(str(x)), else 0.0
ParseFloat(x) ==
    Bind(PyFloat(x), LAMBDA direct :
        IF direct.ok THEN direct.f
        ELSE Bind(PyStr(x), LAMBDA text :
                 IF ~text.ok THEN Lit0_0
                 ELSE Bind(FloatFromText(text.chars), LAMBDA viaText :
                          IF viaText.ok THEN viaText.f ELSE Lit0_0)))

\* the helper of the weight: int(x), else the default
ParseInt(x, default) ==
    Bind(PyIntOf(x), LAMBDA r : IF r.ok THEN r.n ELSE default)

\* the two clamps of the weight, left in the main function
ClampWeight(n) ==
    Bind(IF IntLt0(n) THEN IntOf(0) ELSE n, LAMBDA w1 :
        IF IntEq0(w1) THEN IntOf(0) ELSE w1)

\* the running total of the refactored function after the first n events,
\* or the exception v * w raised on the way
RECURSIVE TotalAfter(_, _)
TotalAfter(ev, n) ==
    IF n = 0 THEN OkF(Lit0_0)
    ELSE Bind(TotalAfter(ev, n - 1), LAMBDA before :
             IF ~before.ok THEN before
             ELSE Bind2(ParseFloat(DictGet(ev[n], "value", PyNone)),
                        ClampWeight(ParseInt(DictGet(ev[n], "weight", IntObj(1)),
                                             IntOf(1))),
                        LAMBDA pv, pw :
                      Bind(FloatTimesInt(pv, pw), LAMBDA prod :
                          IF prod.ok THEN OkF(FAdd(before.f, prod.f)) ELSE prod)))

\* what the refactored calc_score(ev, u, now) returns or raises, nw being
\* the now argument or, when it is None, the reading of the clock
CalcScoreAfter(ev, u, nw) ==
    Bind(TotalAfter(ev, Len(ev)), LAMBDA t :
        IF ~t.ok THEN RetRaise(t.exc)
        ELSE RetValue(Round2(Round2(
                 FMul(ApplyBonus(t.f, LoyaltyBonus(u, nw)), TierMultiplier(u))))))

\* the events both versions are called with: the objects of the test suite,
\* texts that parse to nan and inf, and a weight too large for a float
RefactorEventPool ==
    ObjectEventPool \cup
    { Event(T(<<"n", "a", "n">>), T(<<"-", "0">>)),
      Event(T(<<"i", "n", "f">>), IntObj(1)),
      Event(IntObj(1), BigIntObj(FALSE, BShl(BOne, MaxExp + 1))) }

RefactorUserPool == { User(Pro, Date2020), User(Vip, BadDate), User(Absent, Absent) }

CallBoth ==
    /\ pc = "idle"
    /\ \E ev \in Lists(RefactorEventPool, MaxEvents), u \in RefactorUserPool,
          n \in {PyNone, Now2025} :
           Enter(ev, u, n)

NextRefactor ==
    \/ CallBoth
    \/ LoopStep
    \/ Loyalty
    \/ Tier
    \/ Round

SpecRefactor == Init /\ [][NextRefactor]_vars

(***************************************************************************)
(* divide(numerator, denominator): one action per stretch of the function. *)
(***************************************************************************)
\* the arguments divide is called with: the numbers of the test suite, and
\* values of every kind Decimal() takes or refuses
NumberPool ==
    { IntObj(10), IntObj(4), IntObj(1), IntObj(0), IntObj(3), IntObj(-7),
      BoolObj(TRUE),
      FloatObj(DecToDouble(0, BFromInt(5), 1)), FloatObj(FZero(1)), FloatObj(FNaN),
      PyNone, Instance("StrNum"),
      T(<<"a">>), T(<<"2", ".", "5">>), T(<<"-", "0">>), T(<<"N", "a", "N">>),
      T(<<"s", "N", "a", "N">>), T(<<"I", "n", "f", "i", "n", "i", "t", "y">>),
      T(<<"1", "E", "+", "9", "9", "9", "9", "9", "9">>),
      T(<<"1", "E", "-", "9", "9", "9", "9", "9", "9">>),
      DecimalObj(DFinite(0, <<1, 2, 0>>, -2)) }

DivideCall ==
    /\ dpc = "idle"
    /\ \E a \in NumberPool, b \in NumberPool :
           /\ numerator' = a
           /\ denominator' = b
    /\ dpc' = "convert"
    /\ UNCHANGED <<num, den, dret>>
    /\ UNCHANGED <<events, user, nowArg, clock, pc, i, now, v, w, total, bonus,
                   ret, prev>>

\* the exception of a failed conversion raised as it is
InputErrorPropagated(exc) == exc

\* raise ValueError("Inputs must be numeric.") from exc (lines 14-15)
InputError(exc) == "ValueError"

\* num = Decimal(numerator); den = Decimal(denominator), in a try
\* (lines 11-15)
Convert ==
    /\ dpc = "convert"
    /\ \E n \in {ToDecimal(numerator)} :
           IF ~n.ok
           THEN /\ dpc' = "raised"
                /\ dret' = DRetRaise(InputError(n.exc))
                /\ UNCHANGED <<num, den>>
           ELSE \E d \in {ToDecimal(denominator)} :
                    IF ~d.ok
                    THEN /\ dpc' = "raised"
                         /\ dret' = DRetRaise(InputError(d.exc))
                         /\ num' = n.dec
                         /\ UNCHANGED den
                    ELSE /\ num' = n.dec
                         /\ den' = d.dec
                         /\ dpc' = "check"
                         /\ UNCHANGED dret
    /\ UNCHANGED <<numerator, denominator>>
    /\ UNCHANGED <<events, user, nowArg, clock, pc, i, now, v, w, total, bonus,
                   ret, prev>>

\* if den == 0: raise ZeroDivisionError (lines 17-18); the comparison
\* itself raises for a signaling NaN
CheckZero ==
    /\ dpc = "check"
    /\ \E z \in {DecimalIsZero(den)} :
           IF ~z.ok
           THEN dpc' = "raised" /\ dret' = DRetRaise(z.exc)
           ELSE IF z.b
           THEN dpc' = "raised" /\ dret' = DRetRaise("ZeroDivisionError")
           ELSE dpc' = "quotient" /\ UNCHANGED dret
    /\ UNCHANGED <<numerator, denominator, num, den>>
    /\ UNCHANGED <<events, user, nowArg, clock, pc, i, now, v, w, total, bonus,
                   ret, prev>>

\* return (num / den).normalize() (line 20); the division raises what the
\* context traps
ReturnQuotient ==
    /\ dpc = "quotient"
    /\ \E q \in {Quotient(num, den)} :
           IF q.ok
           THEN dpc' = "done" /\ dret' = DRetValue(q.dec)
           ELSE dpc' = "raised" /\ dret' = DRetRaise(q.exc)
    /\ UNCHANGED <<numerator, denominator, num, den>>
    /\ UNCHANGED <<events, user, nowArg, clock, pc, i, now, v, w, total, bonus,
                   ret, prev>>

NextDivide ==
    \/ DivideCall
    \/ Convert
    \/ CheckZero
    \/ ReturnQuotient

SpecDivide == Init /\ [][NextDivide]_vars

(***************************************************************************)
(* Calls with the same events in different orders.                         *)
(***************************************************************************)
\* the rearrangements of the list s
Rearrangements(s) ==
    { [j \in 1..Len(s) |-> s[p[j]]] :
          p \in { f \in [1..Len(s) -> 1..Len(s)] :
                      \A a, b \in 1..Len(s) : f[a] = f[b] => a = b } }

Big == Event(T(<<"1", "e", "1", "6">>), IntObj(1))

NegBig == Event(T(<<"-", "1", "e", "1", "6">>), T(<<"1">>))

One == Event(IntObj(1), Absent)

Six == Event(T(<<"1", ".", "5">>), T(<<"4">>))

OrderListPool ==
    Rearrangements(<<Big, One, NegBig>>) \cup Rearrangements(<<Hundred, MinusTen, Six>>)
    \cup Rearrangements(<<Hundred, Six>>)

CallPermuted ==
    /\ pc = "idle"
    /\ \E ev \in OrderListPool, u \in {User(Pro, Date2020), User(Vip, BadDate)} :
           Enter(ev, u, Now2025)

NextOrder ==
    \/ CallPermuted
    \/ LoopStep
    \/ Loyalty
    \/ Tier
    \/ Round
    \/ Finish

SpecOrder == Init /\ [][NextOrder]_vars
(***************************************************************************)
(* Calls whose totals reach the rounding step at many magnitudes: below    *)
(* a cent, with a third decimal, where neighbouring floats are about a     *)
(* cent apart (2^45 .. 2^50), and the non-finite ones.                     *)
(***************************************************************************)
RoundingEventPool ==
    { Event(T(<<"5", ".", "8">>), Absent),
      Event(T(<<"2", ".", "6", "7", "5">>), IntObj(1)),
      Event(T(<<"-", "0", ".", "0", "0", "1">>), T(<<"3">>)),
      Event(T(<<"3", "5", "1", "8", "4", "3", "7", "2", "0", "8", "8", "8", "3", "2",
                ".", "0", "0", "5">>), Absent),
      Event(T(<<"7", "0", "3", "6", "8", "7", "4", "4", "1", "7", "7", "6", "6", "4",
                ".", "0", "1", "7">>), IntObj(1)),
      Event(T(<<"1", "1", "2", "5", "8", "9", "9", "9", "0", "6", "8", "4", "2", "6", "2", "4",
                ".", "3">>), Absent),
      Event(T(<<"n", "a", "n">>), Absent),
      Event(FloatObj(FloatMax), IntObj(1)) }

CallRounding ==
    /\ pc = "idle"
    /\ \E ev \in Lists(RoundingEventPool, MaxEvents),
          u \in {User(Absent, Absent), User(Vip, Date2020)} :
           Enter(ev, u, Now2025)

NextRounding ==
    \/ CallRounding
    \/ LoopStep
    \/ Loyalty
    \/ Tier
    \/ Round

SpecRounding == Init /\ [][NextRounding]_vars

(***************************************************************************)
(* What the claims speak of.                                               *)
(***************************************************************************)
Returned == pc = "done"

Raised == pc = "raised"

\* the same number: equal, or both NaN
SameNumber(x, y) == FEq(x, y) \/ (FIsNaN(x) /\ FIsNaN(y))

Dec(d, k) == DecToDouble(0, BFromInt(d), k)

\* the value field converts to a float, directly or through its text
ValueParses(e) ==
    Bind(DictGet(e, "value", PyNone), LAMBDA raw :
        \/ PyFloat(raw).ok
        \/ PyStr(raw).ok /\ FloatFromText(PyStr(raw).chars).ok)

\* the weight field (1 when absent) converts to an int
WeightParses(e) == PyIntOf(DictGet(e, "weight", IntObj(1))).ok

\* the weight of e is too large for a float
WeightOverflows(e) == FIsInf(IntToDouble(WeightOf(e)))

\* the sum of value * weight over the first n events, in list order
RECURSIVE BaseTotal(_, _)
BaseTotal(ev, n) ==
    IF n = 0 THEN Lit0_0
    ELSE FAdd(BaseTotal(ev, n - 1),
              FMul(ValueOf(ev[n]), IntToDouble(WeightOf(ev[n]))))

\* m of the claims: 1.2 for vip, 1.1 for pro, 1.0 otherwise
TierFactor(u) ==
    IF u.tier = Vip THEN Dec(12, 1) ELSE IF u.tier = Pro THEN Dec(11, 1) ELSE Dec(10, 1)

AllParse ==
    /\ \A k \in 1..Len(events) : ValueParses(events[k]) /\ WeightParses(events[k])
    /\ LoyaltyYears(user, now).ok

\* C1: whatever the value, weight and created_at fields hold, calc_score
\* returns a number and no exception escapes it.
C1_NoExceptionEscapes == ~Raised

\* C1, where it fails: the weight 2^1024 converts to an int that v * w cannot
\* convert to a float.
C1_Witness ==
    /\ Raised
    /\ ret = RetRaise("OverflowError")
    /\ events = <<Event(IntObj(1), BigIntObj(FALSE, BShl(BOne, MaxExp + 1)))>>

\* C2 as stated: with every field parsing, the result is the 2-decimal
\* rounding of (sum of value * weight) * (1 - 0.005 * years) * m.
C2_AsStated ==
    (Returned /\ AllParse) =>
        SameNumber(ret.val,
            Round2(FMul(FMul(BaseTotal(events, Len(events)),
                             FSub(Dec(10, 1),
                                  FMul(Dec(5, 3), IntToDouble(LoyaltyYears(user, now).n)))),
                        TierFactor(user))))

\* C2, amended: with every field parsing, the result is the 2-decimal
\* rounding of (S - S * (years * 0.005)) * m, S the sum of value * weight in
\* list order and every operation rounded to a double (or OverflowError
\* when a weight is too large for a float); 3.22 and 116.4 for the two vectors.
C2_ScoreFormula ==
    /\ ((Returned \/ Raised) /\ AllParse) =>
           IF \E k \in 1..Len(events) : WeightOverflows(events[k])
           THEN ret = RetRaise("OverflowError")
           ELSE Bind2(BaseTotal(events, Len(events)),
                      FMul(IntToDouble(LoyaltyYears(user, now).n), Dec(5, 3)),
                      LAMBDA S, b :
                    /\ ret.kind = "value"
                    /\ SameNumber(ret.val,
                           Round2(FMul(FSub(S, FMul(S, b)), TierFactor(user)))))
    /\ (/\ Returned /\ nowArg = Now2025
        /\ events = <<Event(T(<<"1", ".", "5">>), T(<<"2">>))>>
        /\ user = User(Pro, Date2020)) => ret = RetValue(Dec(322, 2))
    /\ (/\ Returned /\ nowArg = Now2025
        /\ events = <<Event(T(<<"1", "0", "0">>), T(<<"1">>))>>
        /\ user = User(Vip, Date2018)) => ret = RetValue(Dec(1164, 1))

\* C2: a pro user of 5 years with two events, one of them the first vector's
C2_Witness ==
    /\ Returned /\ AllParse /\ nowArg = Now2025
    /\ Len(events) = 2
    /\ events[1] = Event(T(<<"1", ".", "5">>), T(<<"2">>))
    /\ events[2] = Event(T(<<"5", ".", "8">>), Absent)
    /\ user = User(Pro, Date2020)
    /\ FGt(ret.val, Dec(322, 2))

\* prev and the call that has just ended differ in tier only, prev with
\* tier hi and this call with tier lo
TierPair(hi, lo) ==
    /\ Returned /\ prev.set /\ prev.ret.kind = "value"
    /\ prev.events = events /\ prev.now = now
    /\ prev.user.created_at = user.created_at
    /\ prev.user.tier = hi /\ user.tier = lo

\* C3 as stated: vip >= pro >= free for the same events, created_at and
\* now, strictly when the base total is greater than 0.
C3_AsStated ==
    /\ \A p \in {<<Vip, Pro>>, <<Pro, Free>>} :
           /\ TierPair(p[1], p[2]) =>
                  /\ FGe(prev.ret.val, ret.val)
                  /\ FGt(BaseTotal(events, Len(events)), Lit0_0)
                         => FGt(prev.ret.val, ret.val)
           /\ TierPair(p[2], p[1]) =>
                  /\ FGe(ret.val, prev.ret.val)
                  /\ FGt(BaseTotal(events, Len(events)), Lit0_0)
                         => FGt(ret.val, prev.ret.val)

\* C3, amended: vip >= pro >= free when the base total is a finite number
\* >= 0, pro >= vip and free >= pro when it is negative, and the inequalities
\* are strict when the base total is at least 1 and the higher score finite.
C3_TierOrder ==
    \A p \in {<<Vip, Pro>>, <<Pro, Free>>} :
        \A d \in {"down", "up"} :
            (IF d = "down" THEN TierPair(p[1], p[2]) ELSE TierPair(p[2], p[1])) =>
                Bind3(BaseTotal(events, Len(events)),
                      IF d = "down" THEN prev.ret.val ELSE ret.val,
                      IF d = "down" THEN ret.val ELSE prev.ret.val,
                      LAMBDA S, high, low :
                    /\ (FIsFinite(S) /\ FGe(S, Lit0_0)) => FGe(high, low)
                    /\ (FIsFinite(S) /\ FLt(S, Lit0_0)) => FGe(low, high)
                    /\ (FIsFinite(S) /\ FGe(S, Dec(10, 1)) /\ FIsFinite(high))
                           => FGt(high, low))

\* C3: the vip call of the vector's event after the pro call of it
C3_Witness ==
    /\ TierPair(Pro, Vip)
    /\ events = <<Hundred>>
    /\ FGt(ret.val, prev.ret.val)

\* C6 as stated: two calls with the same events, user and now arguments
\* give the same result, whatever happened between them.
C6_AsStated ==
    (/\ Returned \/ Raised
     /\ prev.set /\ prev.events = events /\ prev.user = user
     /\ prev.nowArg = nowArg) => ret = prev.ret

\* C6, amended: two calls with the same events and user and the same now
\* (given, or read from the clock) give the same result, whatever happened
\* between them.
C6_SameInputsSameResult ==
    (/\ Returned \/ Raised
     /\ prev.set /\ prev.events = events /\ prev.user = user
     /\ prev.now = now) => ret = prev.ret

\* C6: a call repeated with now given, after the clock has moved
C6_Witness ==
    /\ Returned /\ prev.set /\ prev.events = events /\ prev.user = user
    /\ nowArg = Now2025 /\ prev.nowArg = Now2025
    /\ clock = Clock1
    /\ events = <<Hundred, MinusTen>>
    /\ ret = prev.ret

\* the weight field converts to a negative int or to zero ("-0" is 0)
WeightNotPositive(e) ==
    Bind(PyIntOf(DictGet(e, "weight", IntObj(1))), LAMBDA r :
        r.ok /\ (IntLt0(r.n) \/ IntEq0(r.n)))

\* this step is the loop iteration of an event of weight <= 0
NonPositiveIteration ==
    /\ pc = "loop" /\ i <= Len(events) /\ WeightNotPositive(events[i])
    /\ pc' = "loop"

\* this step returns the score of a list made of events of weight <= 0 only
NonPositiveListReturns ==
    /\ pc = "round" /\ pc' = "done"
    /\ \A k \in 1..Len(events) : WeightNotPositive(events[k])

\* C4 as stated: an event whose weight converts to a negative int or to
\* (negative) zero leaves the running total as it was, whatever its value,
\* and a list of such events scores 0.0.
C4_AsStated ==
    [][/\ NonPositiveIteration => (IntEq0(w') /\ SameNumber(total', total))
       /\ NonPositiveListReturns => ret' = RetValue(Lit0_0)]_vars

\* C4, amended: such an event leaves the running total as it was when its
\* value is finite (0.0 for a value that does not parse), and turns it into
\* NaN when its value is infinite or NaN; a list of such events with finite
\* values scores 0.0.
C4_NegativeWeightAddsNothing ==
    [][/\ NonPositiveIteration =>
              /\ IntEq0(w')
              /\ IF FIsFinite(v') THEN SameNumber(total', total) ELSE FIsNaN(total')
       /\ (/\ NonPositiveListReturns
           /\ \A k \in 1..Len(events) : FIsFinite(ValueOf(events[k])))
              => ret' = RetValue(Lit0_0)]_vars

\* C4: "10" with weight -5 after "1.5" with weight "2" left the total at 3.0
C4_Witness ==
    /\ pc = "loop" /\ i = 3
    /\ events[1] = Event(T(<<"1", ".", "5">>), T(<<"2">>))
    /\ events[2] = Event(T(<<"1", "0">>), IntObj(-5))
    /\ v = Dec(10, 0) /\ IntEq0(w)
    /\ total = Dec(3, 0)

\* C5: calc_score([], user, now) returns 0.0 for every user and every now.
C5_EmptyEventsScoreZero ==
    ((Returned \/ Raised) /\ events = <<>>) => ret = RetValue(Lit0_0)

\* C5: no events, a user whose created_at parses, now read from the clock
C5_Witness ==
    /\ Returned /\ events = <<>> /\ ret = RetValue(Lit0_0)
    /\ user = User(Vip, Date2018) /\ nowArg = PyNone
    /\ bonus = Dec(3, 2)

\* C7 as stated: the number returned is finite or NaN, never an infinity.
C7_AsStated == Returned => ~FIsInf(ret.val)

\* C7, amended: the total is finite or NaN after the loyalty step (an
\* infinite value or running total has become NaN there); the number returned
\* is infinite only when every event value is finite and the multiplication
\* by 1.2 (vip) or 1.1 (pro) overflows.
C7_InfiniteOnlyByTierOverflow ==
    /\ pc = "tier" => ~FIsInf(total)
    /\ (pc = "round" /\ FIsInf(total)) => user.tier \in {Vip, Pro}
    /\ (Returned /\ FIsInf(ret.val)) =>
           /\ user.tier \in {Vip, Pro}
           /\ \A k \in 1..Len(events) : FIsFinite(ValueOf(events[k]))

\* C7: the largest float, the one event of a vip user, has become inf
C7_Witness ==
    /\ Returned
    /\ events = <<Event(FloatObj(FloatMax), BoolObj(TRUE))>>
    /\ user.tier = Vip
    /\ ret.val = FInf(0)

\* the index of the event v and w were last computed from (0: none yet)
LastIndex == IF pc = "idle" THEN 0 ELSE IF Raised THEN i ELSE i - 1

\* C8: v is the direct float conversion of the value field if it succeeds,
\* else the float conversion of its text if both conversions succeed, else
\* 0.0; an absent or null value counts as 0.0.
C8_ValueFallback ==
    LastIndex >= 1 =>
        Bind(DictGet(events[LastIndex], "value", PyNone), LAMBDA raw :
            /\ v = IF PyFloat(raw).ok THEN PyFloat(raw).f
                   ELSE IF ~PyStr(raw).ok THEN Lit0_0
                   ELSE IF ~FloatFromText(PyStr(raw).chars).ok THEN Lit0_0
                   ELSE FloatFromText(PyStr(raw).chars).f
            /\ raw = PyNone => v = Lit0_0
            /\ raw = Instance("FloatBad") => v = Lit0_0
            /\ raw = Instance("StrBad") => v = Lit0_0
            /\ raw = Instance("StrNum") => v = Dec(25, 1))

\* C8: the three steps have each decided a value: "5.8" directly, the text
\* "2.5" of a StrNum, and 0.0 for a StrBad
C8_Witness ==
    /\ LastIndex = 2
    /\ events[1].value = Instance("StrBad")
    /\ events[2].value = Instance("StrNum")
    /\ v = Dec(25, 1)
    /\ total = Dec(25, 1)

\* C9: w is 1 when the weight field is absent, is null or fails integer
\* conversion, else its integer conversion (truncated toward zero) with a
\* negative result replaced by 0; w is a non-negative integer.
C9_WeightRule ==
    LastIndex >= 1 =>
        Bind(events[LastIndex].weight, LAMBDA raw :
            /\ w = IF raw = Absent \/ raw = PyNone \/ ~PyIntOf(raw).ok THEN IntOf(1)
                   ELSE IF PyIntOf(raw).n.neg THEN IntOf(0)
                   ELSE PyIntOf(raw).n
            /\ ~w.neg
            /\ raw = FloatObj(Dec(29, 1)) => w = IntOf(2)
            /\ raw = T(<<"b", "a", "d">>) => w = IntOf(1))

\* C9: the weight 2.9 was truncated to 2 and multiplied into the total
C9_Witness ==
    /\ LastIndex = 2
    /\ events[1] = Event(T(<<"1", "0", "0">>), T(<<"1">>))
    /\ events[2].weight = FloatObj(Dec(29, 1))
    /\ events[2].value = PyNone
    /\ w = IntOf(2)

\* the bonus is k * 0.005 for an integer k in 0..6
BonusOfWholeYears(b) == \E k \in 0..6 : b = FMul(IntToDouble(IntOf(k)), Dec(5, 3))

\* whole years from created_at to now: days / 365 truncated toward zero
\* (for the dates of the pools, whose day counts are small)
WholeYears(u, nw) ==
    Bind(Ordinal(nw) - Ordinal(Strptime(u.created_at).dt), LAMBDA days :
        IF days >= 0 THEN days \div 365 ELSE -((-days) \div 365))

\* this step is the loyalty step
LoyaltyStep == pc = "loop" /\ pc' = "tier"

\* created_at parses and now - created can be computed
YearsKnown ==
    /\ Strptime(DictGet(user, "created_at", T(<<>>))).ok
    /\ ~now.aware

\* C10 as stated: the bonus is years * 0.005 for years in 0..6 (days / 365
\* truncated, 7 or more becoming 6, -1 or less becoming 0), and 0.0 with the
\* total unchanged when created_at is missing or does not parse.
C10_AsStated ==
    [][LoyaltyStep =>
          /\ BonusOfWholeYears(bonus')
          /\ YearsKnown =>
                 bonus' = FMul(IntToDouble(IntOf(
                              Max(0, Min(6, WholeYears(user, now))))), Dec(5, 3))
          /\ ~Strptime(DictGet(user, "created_at", T(<<>>))).ok =>
                 bonus' = Lit0_0 /\ SameNumber(total', total)]_vars

\* C10, amended: the same, except that with created_at missing or not
\* parsing (or now not a datetime created can be subtracted from) the bonus
\* is 0.0 and the total is unchanged when it is finite or NaN and becomes NaN
\* when it is infinite (total - total * 0.0).
C10_BonusRule ==
    [][LoyaltyStep =>
          /\ BonusOfWholeYears(bonus')
          /\ IF YearsKnown
             THEN bonus' = FMul(IntToDouble(IntOf(
                      Max(0, Min(6, WholeYears(user, now))))), Dec(5, 3))
             ELSE /\ bonus' = Lit0_0
                  /\ IF FIsInf(total) THEN FIsNaN(total')
                     ELSE SameNumber(total', total)]_vars

\* C10: 7 years (2018-01-01 to 2025-01-01) counted as 6: bonus 0.03
C10_Witness ==
    /\ pc = "tier"
    /\ user.created_at = Date2018 /\ nowArg = Now2025
    /\ bonus = Dec(3, 2)
    /\ events = <<Event(T(<<"1", "0", "0">>), T(<<"1">>))>>
    /\ total = Dec(97, 0)


Convertible(x) == ToDecimal(x).ok

\* a Decimal equal to zero
IsZeroDecimal(x) == x.k = "fin" /\ x.d = <<0>>

\* the natural number of the digits ds followed by n zeros
ScaledNat(ds, n) == DigitSeqToNat(ds \o [j \in 1..n |-> 0], Len(ds) + n)

\* q is x / y to the precision of the context: the NaN, infinity or zero
\* the operands call for, or a finite number of the sign of the quotient
\* that is at most half a unit of its 28th digit away from x / y (checked
\* for operands whose exponents are small)
IsQuotient(q0, x0, y0) ==
    Bind4(q0, x0, y0, (x0.s + y0.s) % 2, LAMBDA q, x, y, sign :
        IF x.k = "nan" \/ y.k = "nan" THEN q.k = "nan"
        ELSE IF x.k = "inf" THEN q = DInf(sign)
        ELSE IF y.k = "inf" \/ x.d = <<0>> THEN q = DFinite(sign, <<0>>, 0)
        ELSE /\ q.k = "fin" /\ q.s = sign
             /\ (x.e \in -50..50 /\ y.e \in -50..50) =>
                    Bind(Min(x.e, q.e + y.e + Min(0, Len(q.d) - Prec)), LAMBDA m :
                    Bind3(ScaledNat(x.d, x.e - m),
                          BMul(ScaledNat(q.d, q.e + y.e - m),
                               DigitSeqToNat(y.d, Len(y.d))),
                          ScaledNat(y.d, q.e + Len(q.d) - Prec + y.e - m),
                          LAMBDA X, QY, halfTwice :
                        BCmp(BMulSmall(IF BCmp(X, QY) >= 0 THEN BSub(X, QY)
                                       ELSE BSub(QY, X), 2), halfTwice) <= 0)))

\* C12: divide raises ValueError whenever an argument does not convert to a
\* Decimal (also with a zero denominator), otherwise ZeroDivisionError
\* whenever the converted denominator is zero, and returns, the quotient as
\* a Decimal, only otherwise.
C12_DivideErrors ==
    dpc \in {"done", "raised"} =>
        /\ (~Convertible(numerator) \/ ~Convertible(denominator))
               => dret = DRetRaise("ValueError")
        /\ (/\ Convertible(numerator) /\ Convertible(denominator)
            /\ IsZeroDecimal(ToDecimal(denominator).dec))
               => dret = DRetRaise("ZeroDivisionError")
        /\ dret.kind = "value" =>
               /\ Convertible(numerator) /\ Convertible(denominator)
               /\ ~IsZeroDecimal(ToDecimal(denominator).dec)
               /\ IsQuotient(dret.val, ToDecimal(numerator).dec,
                             ToDecimal(denominator).dec)
        /\ (numerator = IntObj(10) /\ denominator = IntObj(4))
               => dret = DRetValue(DFinite(0, <<2, 5>>, -1))
        /\ (numerator = IntObj(1) /\ denominator = IntObj(3))
               => dret = DRetValue(DFinite(0, [j \in 1..Prec |-> 3], -Prec))

\* C12: divide("a", 0) has raised ValueError, not ZeroDivisionError
C12_Witness ==
    /\ dpc = "raised"
    /\ numerator = T(<<"a">>) /\ denominator = IntObj(0)
    /\ dret = DRetRaise("ValueError")

\* the list b is a rearrangement of the list a
IsPermutation(a, b) == b \in Rearrangements(a)

\* v * w of the event e is a finite float whose value is an integer
ProductIsInteger(e) ==
    Bind(FloatTimesInt(ValueOf(e), WeightOf(e)), LAMBDA p :
        /\ p.ok
        /\ \/ p.f.k = "zero"
           \/ /\ p.f.k = "fin"
              /\ \/ p.f.e >= 0
                 \/ BShl(BShr(p.f.m, -p.f.e), -p.f.e) = p.f.m)

\* the sum of the magnitudes of the products of the first n events of ev,
\* the products being integers
RECURSIVE MagnitudeSum(_, _)
MagnitudeSum(ev, n) ==
    IF n = 0 THEN <<>>
    ELSE BAdd(MagnitudeSum(ev, n - 1),
              FTrunc(FloatTimesInt(ValueOf(ev[n]), WeightOf(ev[n])).f).mag)

\* prev and the call that has just returned had the same events in two
\* orders, the same user and the same now
PermutedPair ==
    /\ Returned /\ prev.set
    /\ IsPermutation(prev.events, events)
    /\ prev.user = user /\ prev.now = now

\* C13 as stated: for events whose products are integers, every
\* permutation of the list returns the same score.
C13_AsStated ==
    (PermutedPair /\ \A k \in 1..Len(events) : ProductIsInteger(events[k]))
        => ret = prev.ret

\* C13, amended: for events whose products are integers of magnitudes that
\* sum to at most 2^53 (every partial sum is then exact), every permutation
\* of the list returns the same score.
C13_OrderOfSmallIntegers ==
    (/\ PermutedPair
     /\ \A k \in 1..Len(events) : ProductIsInteger(events[k])
     /\ BCmp(MagnitudeSum(events, Len(events)), BShl(BOne, MantBits)) <= 0)
        => ret = prev.ret

\* C13: 100, -10 and 6 in two different orders have both scored 115.2
C13_Witness ==
    /\ PermutedPair
    /\ events = <<Six, MinusTen, Hundred>>
    /\ prev.events = <<Hundred, MinusTen, Six>>
    /\ user = User(Vip, BadDate)
    /\ ret = RetValue(Dec(1152, 1))
\* C14: the second rounding changes nothing: whenever the rounding step
\* returns, the score is the first rounding of the tier-multiplied total
\* (which the step leaves in total) and rounding it again gave it back.
C14_SecondRoundingNoOp ==
    [][(pc = "round" /\ pc' = "done")
          => /\ ret' = RetValue(Round2(total))
             /\ ret' = RetValue(total')]_vars

\* C14: one event ('70368744177664.017', 1) of a user without tier and
\* date has returned 70368744177664.015625 (2^46 + 1/64), the float nearest
\* to ...64.02, and that is what the first rounding left in total
C14_Witness ==
    /\ Returned
    /\ Len(events) = 1
    /\ events[1].weight = IntObj(1) /\ events[1].value.t = "str"
    /\ user = User(Absent, Absent)
    /\ total = [k |-> "fin", s |-> 0, m |-> BAdd(BShl(BOne, 52), BOne), e |-> -6]
    /\ ret = RetValue(total)

====
